---------------------------- MODULE Spec2Model ----------------------------
(***************************************************************************)
(* The flowchart execution engine of promptflow: the graph (nodes,         *)
(* connectors), the scheduler Flowchart.initialize / Flowchart.run, the    *)
(* node execution contract NodeBase.run_node and the serialization of      *)
(* nodes, connectors and flowcharts.                                       *)
(*                                                                         *)
(* Python objects are modelled by handles: a node is a natural number, a   *)
(* connector is a natural number, and the objects' fields are functions    *)
(* over the handles.  Lists are sequences of handles.  The scheduler calls *)
(* cur_node.run_node(state); the state it passes is the state run_node     *)
(* and run_subclass work on.                                               *)
(***************************************************************************)
EXTENDS Naturals, Sequences, FiniteSets, TLC

VARIABLES
    nodes,              \* Flowchart.nodes: the list of node handles
    node,               \* node handle -> [classname, id, label, center_x, center_y, cfg]
    run_once,           \* node handle -> InitNode.run_once
    conn,               \* connector handle -> [node1, node2, condition]
    connectors,         \* Flowchart.connectors: the list of connector handles
    output_connectors,  \* node handle -> NodeBase.output_connectors
    input_connectors,   \* node handle -> NodeBase.input_connectors
    is_dirty,           \* Flowchart.is_dirty
    is_running,         \* Flowchart.is_running
    initial_state,      \* App.initial_state
    pc,                 \* position of the running call
    phase,              \* which call of App.run_flowchart is in progress
    state,              \* the State object threaded through the call
    queue,              \* the local queue of Flowchart.run
    cur_node,           \* the local cur_node of Flowchart.run
    output,             \* the local output of Flowchart.run
    ci,                 \* position of the for loop over cur_node.output_connectors
    console,            \* the lines the call in progress has appended to the console
    ret,                \* the value the last call returned
    last,               \* the editing operation performed last, with its outcome
    loading,            \* the flowchart Flowchart.deserialize is building while add_node loops
    made,               \* the nodes constructed and not added to the flowchart
    entries             \* the dicts the history lists of the State objects hold

gvars == <<nodes, node, run_once, conn, connectors, output_connectors,
           input_connectors, is_dirty>>
rvars == <<pc, phase, state, queue, cur_node, output, ci, console, ret>>
vars == <<nodes, node, run_once, conn, connectors, output_connectors,
          input_connectors, is_dirty, is_running, initial_state,
          pc, phase, state, queue, cur_node, output, ci, console, ret, last, loading, made, entries>>

-----------------------------------------------------------------------------
(* Bounds of the model *)

\* the nodes a flowchart holds at most
MaxNodes == 2
\* the connectors a flowchart holds at most
MaxConns == 2
\* the nodes one call of Flowchart.run executes at most
MaxSteps == 4
\* the suffixes " (copy)" and " copy" a label is given at most
MaxCopies == 2

-----------------------------------------------------------------------------
(* Values *)

\* Python's None, the termination signal of a node
None == "<None>"
\* the function object a condition script binds to the name main
FunctionObject == "<function main>"
\* no handle
Nil == 0

\* connectors/connector.py: the default condition, and the other scripts of the model
DEFAULT_COND_TEMPLATE == "def main(state): return True"
CondFalse == "def main(state): return False"
CondRaise == "def main(state): raise ValueError"
CondSyntax == "def main(state) return"
CondBlank == " "
CondTexts == {DEFAULT_COND_TEMPLATE, CondFalse, CondRaise, CondSyntax, CondBlank}

\* a dict: a function whose domain is the set of keys
EmptyDict == [k \in {} |-> ""]
Put(d, k, v) == [x \in (DOMAIN d) \cup {k} |-> IF x = k THEN v ELSE d[x]]
Get(d, k, default) == IF k \in DOMAIN d THEN d[k] ELSE default

\* state.py: State.__init__ without arguments, and State.reset
EmptyState == [snapshot |-> EmptyDict, history |-> <<>>, result |-> ""]

\* state.py: State.copy
StateCopy(s) ==
    [snapshot |-> [k \in DOMAIN s.snapshot |-> s.snapshot[k]],
     history  |-> [i \in 1..Len(s.history) |-> s.history[i]],
     result   |-> s.result]

\* no State object holds a history entry
NoEntries == [h \in {} |-> EmptyDict]

\* the value of ret and of state while no call has produced one
NoState == [snapshot |-> EmptyDict, history |-> <<>>, result |-> "<no state>"]

\* a line of the console
Line(type, label, text) == [type |-> type, label |-> label, text |-> text]
SystemDone == Line("system", "", "[System: Done]")
SystemStopped == Line("system", "", "[System: Stopped]")
SystemAlreadyInitialized == Line("system", "", "[System: Already initialized]")

\* the elements of a sequence
Range(s) == {s[i] : i \in 1..Len(s)}

\* the nodes a call has executed so far: one node line or error line each
Executed(c) ==
    Cardinality({i \in 1..Len(c) : c[i].type = "node" \/ c[i].type = "node_error"})

-----------------------------------------------------------------------------
(* The graph *)

IsInit(n) == node[n].classname = "InitNode"
IsStart(n) == node[n].classname = "StartNode"

\* flowchart.py: Flowchart.init_node; Nil stands for the IndexError of [0]
InitNodes == SelectSeq(nodes, IsInit)
init_node == IF InitNodes = <<>> THEN Nil ELSE Head(InitNodes)

\* flowchart.py: Flowchart.start_node; Nil stands for "No start node found".
\* Several start nodes: the stable sort by the number of input connectors
\* puts first the earliest node that has the fewest.
StartNodes == SelectSeq(nodes, IsStart)
start_node ==
    IF StartNodes = <<>> THEN Nil
    ELSE IF Len(StartNodes) = 1 THEN Head(StartNodes)
    ELSE LET fewest(i) == \A j \in 1..Len(StartNodes) :
                 Len(input_connectors[StartNodes[i]]) <= Len(input_connectors[StartNodes[j]])
             first == CHOOSE i \in 1..Len(StartNodes) :
                 fewest(i) /\ \A j \in 1..(i-1) : ~fewest(j)
         IN  StartNodes[first]

-----------------------------------------------------------------------------
(* Node bodies: run_subclass.  An outcome is [raised, output, once]: the   *)
(* body raised an exception, or returned output; once is the value of      *)
(* run_once afterwards.                                                    *)

Outcome(raised, out, once) == [raised |-> raised, output |-> out, once |-> once]

\* the text a server answers: HttpNode returns response.text
ResponseText == "resp"
IsJSON(text) == text = "{}"

InitNode_run_subclass_NoFlag(n, st) ==
    {Outcome(FALSE, IF run_once[n] THEN None ELSE "", run_once[n])}

\* start_node.py: InitNode.run_subclass
InitNode_run_subclass(n, st) ==
    IF ~run_once[n] THEN {Outcome(FALSE, "", TRUE)}
    ELSE {Outcome(FALSE, None, run_once[n])}

\* start_node.py: StartNode.run_subclass
StartNode_run_subclass(n, st) == {Outcome(FALSE, "", run_once[n])}

\* output_node.py: FileOutput.run_subclass: open() raises or the result is
\* written and returned; an empty filename cannot be opened
FileOutput_run_subclass(n, st) ==
    {Outcome(TRUE, None, run_once[n])}
    \cup (IF node[n].cfg.filename = "" \/ st.result = None THEN {}
          ELSE {Outcome(FALSE, st.result, run_once[n])})

\* http_node.py: HttpNode.run_subclass
HttpNode_run_subclass(n, st) ==
    IF ~IsJSON(st.result) THEN {Outcome(FALSE, "Invalid JSON", run_once[n])}
    ELSE {Outcome(FALSE, ResponseText, run_once[n]), Outcome(TRUE, None, run_once[n])}

\* env_node.py: EnvNode.run_subclass
EnvNode_run_subclass(n, st) == {Outcome(FALSE, st.result, run_once[n])}

\* prompt_node.py lines 44-50: PromptNode.run_subclass; a prompt text without
\* placeholders formats to itself
PromptNode_run_subclass(n, st) == {Outcome(FALSE, node[n].cfg.prompt, run_once[n])}

\* audio_node.py lines 107-112: ElevenLabsNode.run_subclass: the service
\* raises or the result is played and returned
ElevenLabsNode_run_subclass(n, st) ==
    {Outcome(TRUE, None, run_once[n]), Outcome(FALSE, st.result, run_once[n])}

\* dispatch of run_subclass on the class of the node
run_subclass(n, st) ==
    CASE node[n].classname = "InitNode"   -> InitNode_run_subclass(n, st)
      [] node[n].classname = "StartNode"  -> StartNode_run_subclass(n, st)
      [] node[n].classname = "FileOutput" -> FileOutput_run_subclass(n, st)
      [] node[n].classname = "HttpNode"   -> HttpNode_run_subclass(n, st)
      [] node[n].classname = "PromptNode" -> PromptNode_run_subclass(n, st)
      [] node[n].classname = "ElevenLabsNode" -> ElevenLabsNode_run_subclass(n, st)
      [] OTHER                            -> EnvNode_run_subclass(n, st)

\* node_base.py: NodeBase.run_node, first statement: the label is entered
\* into the snapshot before the body runs
run_node_before(n, st) ==
    [st EXCEPT !.snapshot = Put(@, node[n].label, Get(@, node[n].label, ""))]

\* node_base.py: NodeBase.run_node, after the body returned out
run_node_after(n, st, out) ==
    [st EXCEPT !.snapshot = Put(@, node[n].label, out), !.result = out]

-----------------------------------------------------------------------------
(* Connector conditions (flowchart.py, lines 205-227).  A condition whose  *)
(* text is blank after strip() is true without being executed.  Any other  *)
(* text is executed with state.snapshot as its local namespace, which      *)
(* binds main in the snapshot, and then main(state) is called.             *)

IsBlank(text) == text = CondBlank \/ text = ""
\* exec() of the script raises: the script does not compile
ExecRaises(text) == text = CondSyntax
\* main(state) raises
MainRaises(text) == text = CondRaise
\* the value main(state) returns
MainValue(text) == text = DEFAULT_COND_TEMPLATE
\* the state after exec(text, globals, state.snapshot)
AfterExec(st) == [st EXCEPT !.snapshot = Put(@, "main", FunctionObject)]
\* the value of cond for a connector whose condition does not raise
CondValue(text) == IF IsBlank(text) THEN TRUE ELSE MainValue(text)

-----------------------------------------------------------------------------
(* The scheduler: Flowchart.initialize and Flowchart.run, called by        *)
(* App.run_flowchart.  canvas.update() at lines 177 and 195 runs the       *)
(* pending user events, so App.stop_flowchart can run at pc = "exec" and   *)
(* at pc = "post".                                                         *)

StopIgnored == FALSE

\* flowchart.py line 169: the check at the top of the loop
StopRequested == ~is_running

TerminationIgnored(out) == FALSE

\* flowchart.py line 197: the node returned the termination signal
IsTermination(out) == out = None

ContinueAfterEnqueue(i, n) == i + 1

\* flowchart.py lines 229-231: the position of the for loop after the
\* destination was appended to the queue: break leaves the loop
AfterEnqueue(i, n) == n + 1

on_node_error_Discard(n, before) == [st |-> EmptyState, lines |-> <<>>]

\* flowchart.py lines 181-188: a node raised: the error line is sent to the
\* console and break leaves the loop; the state is the one run_node left
on_node_error(n, before) ==
    [st |-> before, lines |-> <<Line("node_error", node[n].label, "[ERROR]")>>]

Pop_Keep(q) == q

\* flowchart.py line 174: the queue after queue.pop(0)
Pop(q) == Tail(q)

TerminalEvent_Done(stopped) == SystemDone

\* flowchart.py lines 171 and 235: the system event a call of Flowchart.run
\* sends to the console before it returns
TerminalEvent(stopped) ==
    IF stopped THEN SystemStopped ELSE SystemDone

\* the call returns st after appending lines and [System: Done] (lines 234-237)
ReturnDone(st, lines) ==
    /\ state' = st
    /\ console' = console \o lines \o <<TerminalEvent(FALSE)>>
    /\ ret' = st
    /\ pc' = "returned"
    /\ queue' = <<>>
    /\ cur_node' = Nil
    /\ output' = ""
    /\ ci' = 0

\* flowchart.py lines 159-166: entry of Flowchart.run with queue q
EnterRun(st, q) ==
    /\ state' = st
    /\ queue' = q
    /\ is_running' = TRUE
    /\ console' = <<>>
    /\ pc' = "loop"
    /\ cur_node' = Nil
    /\ output' = ""
    /\ ci' = 0
    /\ ret' = NoState

\* an exception leaves the call: nothing is returned
Raise(st) ==
    /\ state' = st
    /\ pc' = "raised"
    /\ ret' = NoState
    /\ queue' = <<>>
    /\ cur_node' = Nil
    /\ output' = ""
    /\ ci' = 0

InitializeQueue_Start == <<start_node>>

\* flowchart.py line 156: the queue Flowchart.initialize passes to run
InitializeQueue == <<init_node>>

\* app.py lines 353-357 and flowchart.py lines 147-157: App.run_flowchart
\* copies the initial state and calls Flowchart.initialize
RunFlowchart ==
    /\ pc = "idle"
    /\ phase' = "initialize"
    /\ LET st == StateCopy(initial_state) IN
       IF init_node = Nil
       THEN Raise(st) /\ console' = <<>> /\ UNCHANGED is_running
       ELSE IF run_once[init_node]
       THEN /\ state' = st
            /\ console' = <<SystemAlreadyInitialized>>
            /\ ret' = st
            /\ pc' = "returned"
            /\ UNCHANGED <<queue, cur_node, output, ci, is_running>>
       ELSE EnterRun(st, InitializeQueue)
    /\ UNCHANGED <<gvars, initial_state, last, loading, made, entries>>

\* app.py line 358 and flowchart.py lines 163-166: initialize returned and
\* App.run_flowchart calls Flowchart.run with the state it returned
InitializeReturns ==
    /\ pc = "returned"
    /\ phase = "initialize"
    /\ phase' = "run"
    /\ IF start_node = Nil
       THEN Raise(ret) /\ console' = <<>> /\ UNCHANGED is_running
       ELSE EnterRun(ret, <<start_node>>)
    /\ UNCHANGED <<gvars, initial_state, last, loading, made, entries>>

\* app.py lines 359-360: run returned and the initial state is reset
RunReturns ==
    /\ pc = "returned"
    /\ phase = "run"
    /\ pc' = "idle"
    /\ phase' = "none"
    /\ initial_state' = EmptyState
    /\ UNCHANGED <<gvars, is_running, state, queue, cur_node, output, ci, console, ret, last, loading, made, entries>>

\* an exception that left Flowchart.run leaves App.run_flowchart too
Unwind ==
    /\ pc = "raised"
    /\ pc' = "idle"
    /\ phase' = "none"
    /\ UNCHANGED <<gvars, is_running, initial_state, state, queue, cur_node, output, ci,
                   console, ret, last, loading, made, entries>>

\* flowchart.py lines 168-177: the top of the while loop
LoopTop ==
    /\ pc = "loop"
    /\ IF queue = <<>>
       THEN ReturnDone(state, <<>>)
       ELSE IF StopRequested
       THEN /\ console' = Append(console, TerminalEvent(TRUE))
            /\ ret' = state
            /\ pc' = "returned"
            /\ UNCHANGED <<state, queue, cur_node, output, ci>>
       ELSE /\ Executed(console) < MaxSteps
            /\ cur_node' = Head(queue)
            /\ queue' = Pop(queue)
            /\ pc' = "exec"
            /\ UNCHANGED <<state, output, ci, console, ret>>
    /\ UNCHANGED <<gvars, is_running, initial_state, phase, last, loading, made, entries>>

\* flowchart.py lines 179-195 and node_base.py run_node: the node runs
RunNode ==
    /\ pc = "exec"
    /\ LET before == run_node_before(cur_node, state) IN
       \E o \in run_subclass(cur_node, before) :
          /\ run_once' = [run_once EXCEPT ![cur_node] = o.once]
          /\ IF o.raised
             THEN ReturnDone(on_node_error(cur_node, before).st,
                             on_node_error(cur_node, before).lines)
             ELSE /\ state' = run_node_after(cur_node, before, o.output)
                  /\ console' = Append(console,
                         Line("node", node[cur_node].label, o.output))
                  /\ output' = o.output
                  /\ pc' = "post"
                  /\ UNCHANGED <<queue, cur_node, ci, ret>>
    /\ UNCHANGED <<nodes, node, conn, connectors, output_connectors, input_connectors,
                   is_dirty, is_running, initial_state, phase, last, loading, made, entries>>

\* flowchart.py lines 197-203: the output of the node is inspected
AfterNode ==
    /\ pc = "post"
    /\ IF IsTermination(output)
       THEN ReturnDone(state, <<>>)
       ELSE /\ state' = [state EXCEPT !.result = output]
            /\ ci' = 1
            /\ pc' = "scan"
            /\ UNCHANGED <<queue, cur_node, output, console, ret>>
    /\ UNCHANGED <<gvars, is_running, initial_state, phase, last, loading, made, entries>>

\* flowchart.py lines 205-232: one iteration of the for loop over the
\* output connectors of cur_node
ScanConnector ==
    /\ pc = "scan"
    /\ LET cs == output_connectors[cur_node] IN
       IF ci > Len(cs)
       THEN /\ pc' = "loop"
            /\ ci' = 0
            /\ UNCHANGED <<state, queue, cur_node, output, console, ret>>
       ELSE LET c == conn[cs[ci]]
                text == c.condition
            IN  IF ~IsBlank(text) /\ ExecRaises(text)
                THEN Raise(state) /\ UNCHANGED console
                ELSE IF ~IsBlank(text) /\ MainRaises(text)
                THEN /\ state' = AfterExec(state)
                     /\ console' = Append(console,
                            Line("cond_error", node[cur_node].label, "[ERROR]"))
                     /\ pc' = "loop"
                     /\ ci' = 0
                     /\ UNCHANGED <<queue, cur_node, output, ret>>
                ELSE /\ state' = IF IsBlank(text) THEN state ELSE AfterExec(state)
                     /\ IF CondValue(text) /\ c.node2 \notin Range(queue)
                        THEN /\ queue' = Append(queue, c.node2)
                             /\ ci' = AfterEnqueue(ci, Len(cs))
                        ELSE /\ queue' = queue
                             /\ ci' = ci + 1
                     /\ pc' = "scan"
                     /\ UNCHANGED <<cur_node, output, console, ret>>
    /\ UNCHANGED <<gvars, is_running, initial_state, phase, last, loading, made, entries>>

\* app.py lines 362-367: App.stop_flowchart, run by canvas.update() during
\* a run or by the event loop between runs
stop_flowchart ==
    /\ pc \in {"exec", "post", "idle"}
    /\ is_running' = FALSE
    /\ is_dirty' = TRUE
    /\ initial_state' = EmptyState
    /\ UNCHANGED <<nodes, node, run_once, conn, connectors, output_connectors,
                   input_connectors, rvars, last, loading, made, entries>>

-----------------------------------------------------------------------------
(* Construction *)

\* the kind-specific fields a node of a class is constructed with
\* (output_node.py lines 21-22, http_node.py lines 53-54, env_node.py line 25,
\* prompt_node.py lines 38-39, audio_node.py lines 99-105)
DefaultCfg(classname) ==
    CASE classname = "FileOutput" -> [filename |-> "", mode |-> "w"]
      [] classname = "HttpNode"   -> [url |-> "", request_type |-> "get"]
      [] classname = "EnvNode"    -> [filename |-> ".env"]
      [] classname = "PromptNode" -> [prompt |-> ""]
      [] classname = "ElevenLabsNode" ->
            [voice |-> "Bella", model |-> "eleven_monolingual_v1"]
      [] OTHER                    -> EmptyDict

\* node_base.py: NodeBase.__init__
NewNode(classname, id, label, x, y, cfg) ==
    [classname |-> classname, id |-> id, label |-> label,
     center_x |-> x, center_y |-> y, cfg |-> cfg]

\* flowchart.py lines 52-53: the two nodes Flowchart.__init__ adds
TheInitNode == NewNode("InitNode", 1, "Init", 10, 10, EmptyDict)
TheStartNode == NewNode("StartNode", 2, "Start", 10, 210, EmptyDict)

\* The flowcharts that are run hold three nodes: the Init node, the Start
\* node and a FileOutput node the user added and gave a file to write.
RunNodes == {1, 2, 3}
UserNode(id) ==
    NewNode("FileOutput", id, "File", 100, 100, [filename |-> "out.txt", mode |-> "w"])

\* The connectors a user draws between the nodes ns.  A run reads the
\* connectors through the output_connectors of each node only, so the lists
\* are taken with the connectors of a node before those of the next node:
\* the order of the connectors of one node is free.
ConnectorsOver(ns) == [node1 : ns, node2 : ns, condition : CondTexts, label : {"Untitled"}]
ConnectorLists(ns) ==
    {cs \in UNION {[1..k -> ConnectorsOver(ns)] : k \in 0..MaxConns} :
        \A i, j \in 1..Len(cs) : i < j => cs[i].node1 <= cs[j].node1}

\* the state the App that is run was constructed with
TheInitialState ==
    [snapshot |-> Put(EmptyDict, "user", "hi"), history |-> <<>>, result |-> "{}"]

\* the value of last before any editing operation
NoEdit == [op |-> "none", ok |-> TRUE, node1 |-> Nil, node2 |-> Nil]
\* the value of loading while no call of Flowchart.deserialize is in progress
NoLoad == [nodes |-> <<>>, node |-> <<>>, copies |-> 0]

\* A running App: the flowchart Flowchart.__init__ built, to which the user
\* added a node and connectors (connector.py lines 34-39 and flowchart.py
\* lines 138-145 enter each connector in the three lists)
InitRun ==
    \E cs \in ConnectorLists(RunNodes) :
        /\ nodes = <<1, 2, 3>>
        /\ node = [i \in RunNodes |->
                     IF i = 1 THEN TheInitNode
                     ELSE IF i = 2 THEN TheStartNode
                     ELSE UserNode(i)]
        /\ run_once = [i \in RunNodes |-> FALSE]
        /\ conn = [c \in 1..Len(cs) |-> cs[c]]
        /\ connectors = [c \in 1..Len(cs) |-> c]
        /\ output_connectors = [i \in RunNodes |->
               SelectSeq([c \in 1..Len(cs) |-> c], LAMBDA c : cs[c].node1 = i)]
        /\ input_connectors = [i \in RunNodes |->
               SelectSeq([c \in 1..Len(cs) |-> c], LAMBDA c : cs[c].node2 = i)]
        /\ is_dirty = TRUE
        /\ is_running = FALSE
        /\ initial_state = TheInitialState
        /\ pc = "idle"
        /\ phase = "none"
        /\ state = NoState
        /\ queue = <<>>
        /\ cur_node = Nil
        /\ output = ""
        /\ ci = 0
        /\ console = <<>>
        /\ ret = NoState
        /\ last = NoEdit
        /\ loading = NoLoad
        /\ made = {}
        /\ entries = NoEntries

NextRun ==
    \/ RunFlowchart
    \/ InitializeReturns
    \/ RunReturns
    \/ Unwind
    \/ LoopTop
    \/ RunNode
    \/ AfterNode
    \/ ScanConnector
    \/ stop_flowchart

SpecRun == InitRun /\ [][NextRun]_vars

\* Flowchart.run is sequential Python code: as long as the bodies of the
\* nodes and of the conditions return, the statement the call has reached is
\* executed.  The user is free never to start a run and never to press stop.
SpecRunFair ==
    /\ SpecRun
    /\ WF_vars(LoopTop)
    /\ WF_vars(RunNode)
    /\ WF_vars(AfterNode)
    /\ WF_vars(ScanConnector)

-----------------------------------------------------------------------------
(* Properties of the scheduler, checked under SpecRun *)

Last(s) == s[Len(s)]
\* the nodes reachable from n along one or more output connectors
RECURSIVE ReachFrom(_)
ReachFrom(S) ==
    LET T == S \cup {conn[c].node2 : c \in UNION {Range(output_connectors[m]) : m \in S}}
    IN  IF T = S THEN S ELSE ReachFrom(T)
Descendants(n) ==
    ReachFrom({conn[c].node2 : c \in Range(output_connectors[n])})
\* the lines of the console that report an executed node, in order
ExecutedLines(c) == SelectSeq(c, LAMBDA l : l.type = "node" \/ l.type = "node_error")
\* the condition of the i-th output connector of n
CondOf(n, i) == conn[output_connectors[n][i]].condition
DestOf(n, i) == conn[output_connectors[n][i]].node2
CondRaises(text) == ~IsBlank(text) /\ (ExecRaises(text) \/ MainRaises(text))
\* the first output connector of n, in attachment order, whose condition
\* evaluates true, none before it having raised; 0 when there is none
FirstSatisfied(n) ==
    LET sat == {i \in 1..Len(output_connectors[n]) :
                   /\ ~CondRaises(CondOf(n, i))
                   /\ CondValue(CondOf(n, i))
                   /\ \A j \in 1..(i-1) : ~CondRaises(CondOf(n, j))}
    IN  IF sat = {} THEN 0 ELSE CHOOSE i \in sat : \A j \in sat : i <= j
\* the connectors of n whose condition is true
Satisfied(n) ==
    {i \in 1..Len(output_connectors[n]) :
        ~CondRaises(CondOf(n, i)) /\ CondValue(CondOf(n, i))}

\* C1: when the scan of the output connectors of an executed node ends, the
\* queue holds the destination of the first satisfied connector and nothing
\* else (nothing when no connector is satisfied), and while the scan is in
\* progress the queue never holds more than that one destination.
C1_SingleSuccessor ==
    /\ (pc = "scan") =>
          /\ Len(queue) <= 1
          /\ queue # <<>> =>
                /\ FirstSatisfied(cur_node) # 0
                /\ queue = <<DestOf(cur_node, FirstSatisfied(cur_node))>>
    /\ (pc = "loop" /\ cur_node # Nil) =>
          queue = IF FirstSatisfied(cur_node) = 0 THEN <<>>
                  ELSE <<DestOf(cur_node, FirstSatisfied(cur_node))>>

\* a scan has ended for a node with two satisfied connectors to different
\* destinations, and only the first destination is queued
C1_Witness ==
    /\ pc = "loop"
    /\ cur_node # Nil
    /\ \E i, j \in Satisfied(cur_node) :
          /\ i < j
          /\ i = FirstSatisfied(cur_node)
          /\ DestOf(cur_node, i) # DestOf(cur_node, j)
          /\ queue = <<DestOf(cur_node, i)>>

\* C2: every call of initialize that returns leaves the Init node marked as
\* run; a call of initialize made when the Init node has run executes no
\* node, appends only the notice and returns the state it was given; and an
\* Init node that has run returns the termination signal when it is executed
\* again, its flag staying set.
C2_InitializeOnce ==
    /\ [](pc = "returned" /\ phase = "initialize" => run_once[init_node])
    /\ [][ /\ (pc = "idle" /\ phase' = "initialize" /\ run_once[init_node]) =>
                /\ pc' = "returned"
                /\ console' = <<SystemAlreadyInitialized>>
                /\ ret' = StateCopy(initial_state)
                /\ state' = ret'
                /\ run_once' = run_once
           /\ (pc = "exec" /\ pc' # "exec" /\ IsInit(cur_node) /\ run_once[cur_node]) =>
                /\ pc' = "post"
                /\ output' = None
                /\ run_once'[cur_node]
         ]_vars

\* a second call of initialize has returned the state it was given
C2_Witness ==
    /\ pc = "returned"
    /\ phase = "initialize"
    /\ console = <<SystemAlreadyInitialized>>
    /\ ret = state
    /\ ret = StateCopy(initial_state)

\* C3 as stated: initialize executes the Init node and no other node.
C3_InitializeExecutesOnlyInit ==
    phase = "initialize" => Executed(console) <= 1

\* C3 as amended: the first node initialize executes is the Init node, with
\* empty output; and when initialize returns [System: Done] without a stop
\* request or an error, and the Init node has a satisfied output connector,
\* the destination of the first satisfied connector was executed next.
C3_InitializeFollowsConnectors ==
    /\ (phase = "initialize" /\ ExecutedLines(console) # <<>>) =>
          ExecutedLines(console)[1] = Line("node", node[init_node].label, "")
    /\ (phase = "initialize" /\ pc = "returned" /\ console # <<>>
        /\ Last(console) = SystemDone
        /\ console # <<SystemAlreadyInitialized>>
        /\ FirstSatisfied(init_node) # 0) =>
          /\ Len(ExecutedLines(console)) >= 2
          /\ ExecutedLines(console)[2].label =
                 node[DestOf(init_node, FirstSatisfied(init_node))].label

\* initialize has returned after executing the Init node and its successor
C3_Witness ==
    /\ phase = "initialize"
    /\ pc = "returned"
    /\ Len(ExecutedLines(console)) >= 2
    /\ ExecutedLines(console)[1].label = "Init"
    /\ ExecutedLines(console)[2].label # "Init"
    /\ ExecutedLines(console)[2].type = "node"

\* C4: while is_running is false no node is taken from the queue; the loop
\* top then returns the state unchanged with [System: Stopped], executing
\* nothing, and whenever the call returns it returns the accumulated state.
C4_StopHalts ==
    [][ (~is_running /\ pc \in {"loop", "post", "scan"}) =>
            /\ pc' # "exec"
            /\ (pc = "loop" /\ queue # <<>>) =>
                  /\ pc' = "returned"
                  /\ console' = Append(console, SystemStopped)
            /\ pc' = "returned" =>
                  /\ ret' = state
                  /\ state' = state
                  /\ ExecutedLines(console') = ExecutedLines(console)
      ]_vars

\* a run was stopped with a node still pending, after executing a node
C4_Witness ==
    /\ pc = "returned"
    /\ Last(console) = SystemStopped
    /\ Executed(console) >= 1
    /\ queue # <<>>
    /\ ret = state

\* the snapshot of a holds every entry of the snapshot of b
KeepsVariables(a, b) ==
    \A k \in DOMAIN b.snapshot : k \in DOMAIN a.snapshot /\ a.snapshot[k] = b.snapshot[k]

\* C5: when the node being executed raises, the call returns at once: the
\* console gets the [ERROR] line of that node and then [System: Done], and
\* the returned state keeps every variable, the history and the result that
\* the state held before the node ran.
C5_NodeErrorKeepsState ==
    [][ (pc = "exec" /\ pc' \notin {"exec", "post"}) =>
            /\ pc' = "returned"
            /\ console' = console \o
                   <<Line("node_error", node[cur_node].label, "[ERROR]"), SystemDone>>
            /\ ret' = state'
            /\ KeepsVariables(ret', state)
            /\ ret'.history = state.history
            /\ ret'.result = state.result
      ]_vars

\* a node raised after another node had recorded its output
C5_Witness ==
    /\ pc = "returned"
    /\ Len(console) >= 3
    /\ console[Len(console) - 1].type = "node_error"
    /\ console[1].type = "node"
    /\ console[1].label \in DOMAIN ret.snapshot
    /\ ret.snapshot[console[1].label] = console[1].text

\* C6 as stated: a condition that raises, in exec() or in main(state), is
\* caught and reported, nothing is left to execute, and the call goes on to
\* return the state.
C6_ConditionErrorIsCaught ==
    [][ (pc = "scan" /\ ci <= Len(output_connectors[cur_node])
         /\ CondRaises(CondOf(cur_node, ci))) =>
            /\ pc' = "loop"
            /\ console' = Append(console, Line("cond_error", node[cur_node].label, "[ERROR]"))
            /\ queue' = <<>>
      ]_vars

\* C7: when the executed node returned the termination signal the call
\* returns with [System: Done]: no connector is evaluated (the state is
\* untouched), nothing is queued and no node is executed.
C7_TerminationSignal ==
    [][ (pc = "post" /\ output = None /\ pc' # "post") =>
            /\ pc' = "returned"
            /\ console' = Append(console, SystemDone)
            /\ state' = state
            /\ ret' = state
            /\ queue' = <<>>
      ]_vars

\* a node that has a satisfied output connector returned the termination
\* signal and the call returned
C7_Witness ==
    /\ pc = "returned"
    /\ Len(console) >= 2
    /\ Last(console) = SystemDone
    /\ console[Len(console) - 1].type = "node"
    /\ console[Len(console) - 1].text = None
    /\ \E n \in Range(nodes) :
          /\ node[n].label = console[Len(console) - 1].label
          /\ FirstSatisfied(n) # 0
    /\ "main" \notin DOMAIN state.snapshot

\* C17 as stated, in the part about conditions: state.variables holds the
\* latest output of each node under its label, so evaluating the condition
\* of an output connector after a node has been executed adds, changes and
\* removes no entry of state.variables.
C17_ConditionsKeepVariables ==
    [][ pc = "scan" => state'.snapshot = state.snapshot ]_vars

\* the positions of a call of Flowchart.run that has not returned
InRun == pc \in {"loop", "exec", "post", "scan"}

\* C24: stop is cooperative.  Once is_running is false during a call of
\* Flowchart.run, the call leaves (it returns, or an exception of a condition
\* leaves it), also on a cyclic graph whose conditions are always true; no
\* node is taken from the queue after the request, and only the node that
\* was being executed when the flag was cleared is executed after it.
C24_StopIsCooperative ==
    /\ (InRun /\ ~is_running) ~> (pc \in {"returned", "raised"})
    /\ [][ (InRun /\ ~is_running) =>
              /\ (pc' = "exec" => pc = "exec")
              /\ (pc # "exec" => Executed(console') = Executed(console))
              /\ (pc = "exec" => Executed(console') <= Executed(console) + 1)
          ]_vars

\* a run on a cyclic graph was stopped after it had executed a node twice
C24_Witness ==
    /\ pc = "returned"
    /\ ~is_running
    /\ Last(console) = SystemStopped
    /\ \E i, j \in 1..Len(console) :
          /\ i < j
          /\ console[i].type = "node"
          /\ console[j].type = "node"
          /\ console[i].label = console[j].label

\* C25: during a call of Flowchart.run started by App.run_flowchart, from
\* the Start node or through initialize from the Init node, the queue never
\* holds more than one node and never holds a node twice.
C25_QueueHoldsOneNode ==
    /\ Len(queue) <= 1
    /\ \A i, j \in 1..Len(queue) : queue[i] = queue[j] => i = j

\* the connectors of a node with two satisfied output connectors to two
\* different nodes have been scanned, and one node is pending
C25_Witness ==
    /\ pc = "loop"
    /\ Len(queue) = 1
    /\ cur_node # Nil
    /\ \E i, j \in 1..Len(output_connectors[cur_node]) :
          /\ i < j
          /\ IsBlank(CondOf(cur_node, i))
          /\ IsBlank(CondOf(cur_node, j))
          /\ DestOf(cur_node, i) # DestOf(cur_node, j)
          /\ queue = <<DestOf(cur_node, i)>>

\* C26 as stated: whenever a call of Flowchart.run has returned, with
\* [System: Done] or with [System: Stopped], is_running is false.
C26_NotRunningAfterReturn ==
    (pc = "returned" /\ Last(console) \in {SystemDone, SystemStopped}) => ~is_running

\* C27 as stated: a stop requested while App.run_flowchart is in
\* Flowchart.initialize is not lost.  initialize entered Flowchart.run, which
\* set is_running, so is_running is false on its return only when a stop was
\* requested meanwhile; the request is then still pending when the main
\* Flowchart.run starts, so that its loop top returns before it takes the
\* Start node from the queue.
C27_StopDuringInitializeIsKept ==
    [][ (/\ pc = "returned"
         /\ phase = "initialize"
         /\ console # <<SystemAlreadyInitialized>>
         /\ ~is_running
         /\ phase' = "run") => ~is_running'
      ]_vars

\* the system events of a console that end a call of Flowchart.run
TerminalEvents(c) == SelectSeq(c, LAMBDA l : l \in {SystemDone, SystemStopped})

\* C28: a call of Flowchart.run that returns has sent exactly one of
\* [System: Done] and [System: Stopped] to the console, as its last line; it
\* is [System: Stopped] exactly when the call returned because the loop top
\* found a node pending and is_running false, and [System: Done] otherwise.
C28_OneTerminalEvent ==
    [][ (InRun /\ pc' = "returned") =>
            /\ Len(TerminalEvents(console)) = 0
            /\ Len(TerminalEvents(console')) = 1
            /\ Last(console') \in {SystemDone, SystemStopped}
            /\ Last(console') = SystemStopped <=>
                   (pc = "loop" /\ queue # <<>> /\ ~is_running)
      ]_vars

\* a run was stopped at the loop top and the call returned with
\* [System: Stopped] after the line of the node it had executed
C28_Witness ==
    /\ pc = "returned"
    /\ phase = "run"
    /\ ~is_running
    /\ Len(console) = 2
    /\ console[1].type = "node"
    /\ console[2] = SystemStopped

\* the connectors form no cycle: no node is reachable from itself
Acyclic == \A n \in Range(nodes) : n \notin Descendants(n)

\* C29: on a flowchart whose connectors form no cycle, a call of
\* Flowchart.run whose node bodies and conditions return leaves (an exception
\* of a script that does not compile leaves it too), and the console of the
\* call never reports the same node twice.
C29_AcyclicRunTerminates ==
    /\ (InRun /\ Acyclic) ~> (pc \in {"returned", "raised"})
    /\ [](Acyclic =>
            \A i, j \in 1..Len(ExecutedLines(console)) :
                ExecutedLines(console)[i].label = ExecutedLines(console)[j].label => i = j)

\* the main run of a flowchart with two connectors and no cycle returned
\* after it had executed every node
C29_Witness ==
    /\ pc = "returned"
    /\ phase = "run"
    /\ Acyclic
    /\ Len(connectors) = 2
    /\ Last(console) = SystemDone
    /\ {l.label : l \in Range(ExecutedLines(console))} = {node[n].label : n \in Range(nodes)}

-----------------------------------------------------------------------------
(* Serialization.  A dict is a function over its keys; a | b is b @@ a. *)

\* start_node.py lines 32-35 and 81-84: the constructor of a Start or Init
\* node raises when the flowchart holds one already
ConstructorRaises(classname, present) ==
    \/ classname = "StartNode" /\ "StartNode" \in present
    \/ classname = "InitNode" /\ "InitNode" \in present

\* connector.py lines 42-52: the condition a connector is constructed with
ConnectorCondition(text) ==
    IF text = "" THEN [text |-> DEFAULT_COND_TEMPLATE, label |-> "Untitled.py"]
    ELSE [text |-> text, label |-> "Untitled"]


\* node_base.py lines 287-294: NodeBase.serialize
NodeBase_serialize(n) ==
    [id |-> node[n].id, label |-> node[n].label, center_x |-> node[n].center_x,
     center_y |-> node[n].center_y, classname |-> node[n].classname]

\* NodeBase.serialize and its overrides: http_node.py lines 110-114,
\* env_node.py lines 31-34, prompt_node.py lines 52-55, audio_node.py lines
\* 114-118.  FileOutput
\* (output_node.py lines 14-44) does not override serialize.
Node_serialize(n) ==
    CASE node[n].classname = "HttpNode" ->
            [url |-> node[n].cfg.url, request_type |-> node[n].cfg.request_type]
            @@ NodeBase_serialize(n)
      [] node[n].classname = "EnvNode" ->
            [filename |-> node[n].cfg.filename] @@ NodeBase_serialize(n)
      [] node[n].classname = "PromptNode" ->
            [prompt |-> node[n].cfg.prompt] @@ NodeBase_serialize(n)
      [] node[n].classname = "ElevenLabsNode" ->
            [voice |-> node[n].cfg.voice, model |-> node[n].cfg.model]
            @@ NodeBase_serialize(n)
      [] OTHER -> NodeBase_serialize(n)

\* the kind-specific fields the constructor of a class reads from the
\* keyword arguments: kwargs.get(key, default)
CfgFromKwargs(classname, data) ==
    CASE classname = "FileOutput" ->
            [filename |-> Get(data, "filename", ""), mode |-> Get(data, "mode", "w")]
      [] classname = "HttpNode" ->
            [url |-> Get(data, "url", ""), request_type |-> Get(data, "request_type", "get")]
      [] classname = "EnvNode" -> [filename |-> Get(data, "filename", ".env")]
      [] classname = "PromptNode" -> [prompt |-> Get(data, "prompt", "")]
      [] classname = "ElevenLabsNode" ->
            [voice |-> Get(data, "voice", "Bella"),
             model |-> Get(data, "model", "eleven_monolingual_v1")]
      [] OTHER -> EmptyDict

Failed(error) == [ok |-> FALSE, error |-> error, node |-> TheInitNode]

\* node_base.py lines 120-125: NodeBase.deserialize, cls(flowchart, **data),
\* with the overrides start_node.py lines 39-48 and prompt_node.py lines
\* 62-71; present is the set of the classes of the nodes of the flowchart
Node_deserialize(data, present) ==
    IF ConstructorRaises(data.classname, present)
    THEN Failed("ValueError")
    ELSE IF data.classname = "PromptNode" /\ "prompt" \notin DOMAIN data
    THEN Failed("KeyError")
    ELSE [ok |-> TRUE, error |-> "",
          node |-> NewNode(data.classname, data.id, data.label, data.center_x,
                           data.center_y, CfgFromKwargs(data.classname, data))]

\* connector.py lines 65-72: Connector.serialize; the id of a connector that
\* was constructed without one is None
Connector_serialize(c) ==
    [id |-> None, prev |-> node[conn[c].node1].id, next |-> node[conn[c].node2].id,
     conditional |-> conn[c].condition, label |-> conn[c].label]

\* flowchart.py lines 250-261: Flowchart.serialize
Flowchart_serialize ==
    [nodes |-> [i \in 1..Len(nodes) |-> Node_serialize(nodes[i])],
     connectors |-> [i \in 1..Len(connectors) |-> Connector_serialize(connectors[i])]]

\* flowchart.py lines 9-32: the node classes Flowchart.deserialize can name
\* in eval(node_data["classname"])
FlowchartImports ==
    {"InitNode", "StartNode", "FuncNode", "LLMNode", "DateNode", "RandomNode",
     "HistoryNode", "DummyNode", "PromptNode", "MemoryNode", "WindowedMemoryNode",
     "DynamicWindowedMemoryNode", "EmbeddingInNode", "EmbeddingQueryNode",
     "EmbeddingsIngestNode", "AssertNode"}

\* the ids uuid gives the two nodes of a newly constructed flowchart: they
\* are ids of no other node
FreshId(k) == 100 + k

\* the flowchart Flowchart.deserialize could not build
LoadFailed(error, ns) == [ok |-> FALSE, error |-> error, nodes |-> ns, connectors |-> <<>>]

\* flowchart.py lines 131-133: add_node does not leave its loop for the node
\* rec, whose id a node of the flowchart being built has
AddNodeLoops(ns, rec) ==
    [ok |-> FALSE, error |-> "no return", nodes |-> ns, connectors |-> <<>>, adding |-> rec]

\* flowchart.py lines 61-63: the node records are deserialized and added in
\* order to the nodes ns built so far; add_node never returns for a node
\* whose id a node of the flowchart has (lines 131-133)
RECURSIVE DeserializeNodes(_, _, _)
DeserializeNodes(recs, i, ns) ==
    IF i > Len(recs) THEN [ok |-> TRUE, error |-> "", nodes |-> ns, connectors |-> <<>>]
    ELSE IF recs[i].classname \notin FlowchartImports THEN LoadFailed("NameError", ns)
    ELSE LET d == Node_deserialize(recs[i], {ns[k].classname : k \in 1..Len(ns)}) IN
         IF ~d.ok THEN LoadFailed(d.error, ns)
         ELSE IF \E k \in 1..Len(ns) : ns[k].id = d.node.id THEN AddNodeLoops(ns, d.node)
         ELSE DeserializeNodes(recs, i + 1, Append(ns, d.node))

\* flowchart.py lines 64-70: the connector records are deserialized in order
RECURSIVE DeserializeConnectors(_, _, _, _)
DeserializeConnectors(recs, i, ns, cs) ==
    IF i > Len(recs) THEN [ok |-> TRUE, error |-> "", nodes |-> ns, connectors |-> cs]
    ELSE IF "node1" \notin DOMAIN recs[i] \/ "node2" \notin DOMAIN recs[i]
    THEN LoadFailed("KeyError", ns)
    ELSE IF \E key \in {"node1", "node2"} : \A k \in 1..Len(ns) : ns[k].id # recs[i][key]
    THEN LoadFailed("ValueError", ns)
    ELSE DeserializeConnectors(recs, i + 1, ns,
             Append(cs, [node1 |-> recs[i]["node1"], node2 |-> recs[i]["node2"],
                         condition |-> ConnectorCondition(Get(recs[i], "condition", "")).text]))

\* flowchart.py lines 55-74: Flowchart.deserialize: a new Flowchart, whose
\* constructor adds an Init node and a Start node, then the nodes, then the
\* connectors
Flowchart_deserialize(data) ==
    LET fresh == <<[TheInitNode EXCEPT !.id = FreshId(1)],
                   [TheStartNode EXCEPT !.id = FreshId(2)]>>
        built == DeserializeNodes(data.nodes, 1, fresh)
    IN  IF ~built.ok THEN built
        ELSE DeserializeConnectors(data.connectors, 1, built.nodes, <<>>)

-----------------------------------------------------------------------------
(* Editing the flowchart.  The lists of the flowchart and of its nodes are *)
(* worked on as one record g: [nodes, connectors, out, inp, raised], where *)
(* raised tells that a statement raised and the operation was left.        *)

\* the classes the Add Node menu offers in the model
NodeClasses == {"InitNode", "StartNode", "FileOutput", "PromptNode", "ElevenLabsNode"}
\* app.py lines 193-249: the name the Add Node menu gives a node of the class
MenuName(classname) ==
    CASE classname = "StartNode"  -> "Start"
      [] classname = "InitNode"   -> "Initialize"
      [] classname = "EnvNode"    -> ".env"
      [] classname = "FileOutput" -> "File"
      [] classname = "PromptNode" -> "Prompt"
      [] classname = "HttpNode"   -> "HTTP"
      [] OTHER                    -> "ElevenLabs Audio Output"
\* the values the options dialogues return
FileNames == {"out.txt"}
Urls == {"http://h"}
RequestTypes == {"get", "post"}
\* a connector drawn in the editor is constructed without a condition
EditorCondTexts == {""}

Edit(op, ok, n1, n2) == [op |-> op, ok |-> ok, node1 |-> n1, node2 |-> n2]

\* a handle no object of the set has
FreeHandle(used, max) == CHOOSE h \in 1..max : h \notin used /\ \A g \in 1..(h-1) : g \in used

ClassesOf(hs) == {node[h].classname : h \in hs}

\* node_base.py lines 107-110: NodeBase.__eq__
SameNode(a, b) == node[a].id = node[b].id
\* node in self.nodes
Contains(ns, n) == \E i \in 1..Len(ns) : SameNode(ns[i], n)

\* connector.node1 == node or connector.node2 == node
Touches(c, n) == SameNode(conn[c].node1, n) \/ SameNode(conn[c].node2, n)

\* the lists of the flowchart and of its nodes, as they are
G == [nodes |-> nodes, connectors |-> connectors, out |-> output_connectors,
      inp |-> input_connectors, raised |-> FALSE]

\* the connectors some list still holds, and the nodes that are in the
\* flowchart, held by the caller that constructed them, or at an end of such
\* a connector: the other objects are gone
HeldConnectors(g, hs) ==
    Range(g.connectors) \cup UNION {Range(g.out[h]) \cup Range(g.inp[h]) : h \in hs}
HeldNodes(g) ==
    Range(g.nodes) \cup made
    \cup {conn[c].node1 : c \in HeldConnectors(g, DOMAIN node)}
    \cup {conn[c].node2 : c \in HeldConnectors(g, DOMAIN node)}

\* the variables take the lists of g; the objects nothing holds are dropped
Install(g) ==
    LET hs == HeldNodes(g)
        cs == HeldConnectors(g, hs)
    IN  /\ nodes' = g.nodes
        /\ connectors' = g.connectors
        /\ node' = [h \in hs |-> node[h]]
        /\ run_once' = [h \in hs |-> run_once[h]]
        /\ output_connectors' = [h \in hs |-> g.out[h]]
        /\ input_connectors' = [h \in hs |-> g.inp[h]]
        /\ conn' = [c \in cs |-> conn[c]]

\* a handler of the editor returns: it had no state and sent no line to
\* the console
Returns ==
    /\ state' = NoState
    /\ console' = <<>>
    /\ UNCHANGED <<pc, phase, queue, cur_node, output, ci, ret, loading, entries>>
\* a handler of the editor constructs no node it does not add
EditReturns == Returns /\ UNCHANGED made

\* app.py lines 485-494 and flowchart.py lines 127-136: a node of the class
\* is constructed with a new id and added; the id is in no node of the
\* flowchart, so the while loop of add_node does not run
AddNode(classname) ==
    /\ pc = "idle"
    /\ Cardinality(DOMAIN node) < MaxNodes
    /\ IF ConstructorRaises(classname, ClassesOf(Range(nodes)))
       THEN /\ last' = Edit("add_node", FALSE, Nil, Nil)
            /\ UNCHANGED <<gvars>>
       ELSE LET h == FreeHandle(DOMAIN node, MaxNodes) IN
            /\ node' = (h :> NewNode(classname, h, MenuName(classname), 100, 100,
                                     DefaultCfg(classname)))
                       @@ node
            /\ run_once' = (h :> FALSE) @@ run_once
            /\ output_connectors' = (h :> <<>>) @@ output_connectors
            /\ input_connectors' = (h :> <<>>) @@ input_connectors
            /\ nodes' = Append(nodes, h)
            /\ is_dirty' = TRUE
            /\ last' = Edit("add_node", TRUE, Nil, Nil)
            /\ UNCHANGED <<conn, connectors>>
    /\ EditReturns
    /\ UNCHANGED <<is_running, initial_state>>

\* connector.py lines 89-97: Connector.detect_cycle of a connector n1 -> n2
\* that has been constructed: n1 is n2 or one of the children of n2
detect_cycle(n1, n2) ==
    \/ n1 = n2
    \/ n1 \in {conn[c].node2 : c \in Range(output_connectors[n2])}

\* connector.py lines 34-39 and flowchart.py lines 138-145: a connector is
\* constructed, which enters it in the lists of its two nodes, and
\* Flowchart.add_connector appends it to the list of the flowchart
add_connector(n1, n2, text) ==
    /\ pc = "idle"
    /\ Cardinality(DOMAIN conn) < MaxConns
    /\ LET c == FreeHandle(DOMAIN conn, MaxConns)
           cond == ConnectorCondition(text)
           out1 == [output_connectors EXCEPT ![n1] = Append(@, c)]
       IN  /\ conn' = (c :> [node1 |-> n1, node2 |-> n2,
                             condition |-> cond.text, label |-> cond.label]) @@ conn
           /\ output_connectors' = out1
           /\ input_connectors' = [input_connectors EXCEPT ![n2] = Append(@, c)]
           /\ connectors' = Append(connectors, c)
           /\ is_dirty' = TRUE
           /\ last' = Edit("add_connector", TRUE, Nil, Nil)
    /\ EditReturns
    /\ UNCHANGED <<nodes, node, run_once, is_running, initial_state>>

Remove_Last(s, x) == SubSeq(s, 1, Len(s) - 1)

\* list.remove(x): the first element equal to x leaves the list
Remove(s, x) ==
    LET first == CHOOSE i \in 1..Len(s) : s[i] = x /\ \A j \in 1..(i-1) : s[j] # x
    IN  [i \in 1..(Len(s) - 1) |-> IF i < first THEN s[i] ELSE s[i + 1]]

\* connector.py lines 74-81: Connector.delete; list.remove raises ValueError
\* when the list does not hold the connector
Connector_delete_on(g, c) ==
    LET n1 == conn[c].node1
        n2 == conn[c].node2
        g1 == IF c \in Range(g.connectors)
              THEN [g EXCEPT !.connectors = Remove(@, c)] ELSE g
    IN  IF c \notin Range(g1.out[n1]) THEN [g1 EXCEPT !.raised = TRUE]
        ELSE LET g2 == [g1 EXCEPT !.out[n1] = Remove(@, c)] IN
             IF c \notin Range(g2.inp[n2]) THEN [g2 EXCEPT !.raised = TRUE]
             ELSE [g2 EXCEPT !.inp[n2] = Remove(@, c)]

\* the user deletes a connector of the flowchart: Connector.delete
Connector_delete(c) ==
    /\ pc = "idle"
    /\ c \in Range(connectors)
    /\ \E g \in {Connector_delete_on(G, c)} :
       /\ Install(g)
       /\ last' = Edit("connector_delete", ~g.raised, Nil, Nil)
    /\ EditReturns
    /\ UNCHANGED <<is_dirty, is_running, initial_state>>

\* flowchart.py lines 271-277: the loop over m.connectors, a list built when
\* the loop starts (node_base.py lines 115-118)
RECURSIVE OverNodeConnectors(_, _, _, _, _)
OverNodeConnectors(g, cs, i, m, n) ==
    IF g.raised \/ i > Len(cs) THEN g
    ELSE IF ~Touches(cs[i], n) THEN OverNodeConnectors(g, cs, i + 1, m, n)
    ELSE LET g1 == Connector_delete_on(g, cs[i])
             g2 == IF cs[i] \in Range(g1.inp[m])
                   THEN [g1 EXCEPT !.inp[m] = Remove(@, cs[i])] ELSE g1
             g3 == IF cs[i] \in Range(g2.out[m])
                   THEN [g2 EXCEPT !.out[m] = Remove(@, cs[i])] ELSE g2
         IN  IF g1.raised THEN g1 ELSE OverNodeConnectors(g3, cs, i + 1, m, n)

\* flowchart.py lines 270-277: the loop over the nodes left in the flowchart
RECURSIVE OverNodes(_, _, _)
OverNodes(g, k, n) ==
    IF g.raised \/ k > Len(g.nodes) THEN g
    ELSE LET m == g.nodes[k] IN
         OverNodes(OverNodeConnectors(g, g.inp[m] \o g.out[m], 1, m, n), k + 1, n)

\* flowchart.py lines 278-280: the loop over self.connectors, the list the
\* loop body removes from: the iterator yields the element at position i of
\* the list as it is then, and moves to position i + 1
RECURSIVE OverConnectors(_, _, _)
OverConnectors(g, i, n) ==
    IF g.raised \/ i > Len(g.connectors) THEN g
    ELSE IF Touches(g.connectors[i], n)
    THEN OverConnectors(Connector_delete_on(g, g.connectors[i]), i + 1, n)
    ELSE OverConnectors(g, i + 1, n)

\* nodes.remove(node): the first node equal to n leaves the list
RemoveNode(ns, n) ==
    LET first == CHOOSE i \in 1..Len(ns) :
                     SameNode(ns[i], n) /\ \A j \in 1..(i-1) : ~SameNode(ns[j], n)
    IN  [i \in 1..(Len(ns) - 1) |-> IF i < first THEN ns[i] ELSE ns[i + 1]]

\* flowchart.py lines 263-280: Flowchart.remove_node, up to is_dirty
remove_node(g, n) ==
    LET g0 == IF Contains(g.nodes, n) THEN [g EXCEPT !.nodes = RemoveNode(@, n)] ELSE g
        g1 == OverNodes(g0, 1, n)
    IN  OverConnectors(g1, 1, n)

\* node_base.py lines 296-315 and flowchart.py lines 263-281: NodeBase.delete
\* of a node on the canvas, from its menu or confirmed in the dialogue
Node_delete(n) ==
    /\ pc = "idle"
    /\ n \in Range(nodes)
    /\ \E g \in {remove_node(G, n)} :
       /\ Install(g)
       /\ is_dirty' = IF g.raised THEN is_dirty ELSE TRUE
       /\ last' = Edit("remove_node", ~g.raised, Nil, Nil)
    /\ EditReturns
    /\ UNCHANGED <<is_running, initial_state>>

\* an id uuid gives: the id of no node there is
NewId == FreeHandle({node[m].id : m \in DOMAIN node}, MaxNodes)

\* node_base.py lines 22-48 and start_node.py lines 32-35, 81-84: a node of
\* the class is constructed for the flowchart; the caller holds it
Construct(classname) ==
    /\ pc = "idle"
    /\ Cardinality(DOMAIN node) < MaxNodes
    /\ IF ConstructorRaises(classname, ClassesOf(Range(nodes)))
       THEN /\ last' = Edit("construct", FALSE, Nil, Nil)
            /\ UNCHANGED <<node, run_once, output_connectors, input_connectors, made>>
       ELSE LET h == FreeHandle(DOMAIN node, MaxNodes) IN
            /\ node' = (h :> NewNode(classname, NewId, MenuName(classname), 100, 100,
                                     DefaultCfg(classname)))
                       @@ node
            /\ run_once' = (h :> FALSE) @@ run_once
            /\ output_connectors' = (h :> <<>>) @@ output_connectors
            /\ input_connectors' = (h :> <<>>) @@ input_connectors
            /\ made' = made \cup {h}
            /\ last' = Edit("construct", TRUE, Nil, Nil)
    /\ Returns
    /\ UNCHANGED <<nodes, conn, connectors, is_dirty, is_running, initial_state>>

\* flowchart.py lines 127-136: Flowchart.add_node of a node the caller has
\* constructed; its id is in no node of the flowchart, so the while loop
\* does not run
add_node(h) ==
    /\ pc = "idle"
    /\ h \in made
    /\ ~Contains(nodes, h)
    /\ nodes' = Append(nodes, h)
    /\ made' = made \ {h}
    /\ is_dirty' = TRUE
    /\ last' = Edit("add_node", TRUE, Nil, Nil)
    /\ Returns
    /\ UNCHANGED <<node, run_once, conn, connectors, output_connectors, input_connectors,
                   is_running, initial_state>>

\* the labels with k suffixes " copy"
RECURSIVE CopyLabels(_)
CopyLabels(k) ==
    IF k = 0 THEN {"Init", "Start"} \cup {MenuName(classname) : classname \in NodeClasses}
    ELSE {label \o " copy" : label \in CopyLabels(k - 1)}

\* node_base.py lines 317-326: NodeBase.copy: the record of the node, with a
\* new id and " copy" after its label, is deserialized for the flowchart
\* of the node; the caller holds the new node
copy(n) ==
    /\ pc = "idle"
    /\ Cardinality(DOMAIN node) < MaxNodes
    /\ \E k \in 0..(MaxCopies - 1) : node[n].label \in CopyLabels(k)
    /\ LET h == FreeHandle(DOMAIN node, MaxNodes)
           data == [id |-> NewId, label |-> node[n].label \o " copy"] @@ Node_serialize(n)
           d == Node_deserialize(data, ClassesOf(Range(nodes)))
       IN  IF d.ok
           THEN /\ node' = (h :> d.node) @@ node
                /\ run_once' = (h :> FALSE) @@ run_once
                /\ output_connectors' = (h :> <<>>) @@ output_connectors
                /\ input_connectors' = (h :> <<>>) @@ input_connectors
                /\ made' = made \cup {h}
                /\ last' = Edit("copy", TRUE, Nil, Nil)
           ELSE /\ last' = Edit("copy", FALSE, Nil, Nil)
                /\ UNCHANGED <<node, run_once, output_connectors, input_connectors, made>>
    /\ Returns
    /\ UNCHANGED <<nodes, conn, connectors, is_dirty, is_running, initial_state>>

\* output_node.py lines 24-37 and http_node.py lines 85-108: the options
\* dialogue of a node is confirmed; FileOutput takes the filename only
edit_options(n) ==
    /\ pc = "idle"
    /\ node[n].classname \in {"FileOutput", "HttpNode"}
    /\ IF node[n].classname = "FileOutput"
       THEN \E f \in FileNames :
               node' = [node EXCEPT ![n].cfg = [filename |-> f, mode |-> @.mode]]
       ELSE \E u \in Urls, t \in RequestTypes :
               node' = [node EXCEPT ![n].cfg = [url |-> u, request_type |-> t]]
    /\ last' = Edit("edit_options", TRUE, Nil, Nil)
    /\ EditReturns
    /\ UNCHANGED <<nodes, run_once, conn, connectors, output_connectors, input_connectors,
                   is_dirty, is_running, initial_state>>

\* audio_node.py lines 120-122: 0.30 dollars for 1000 characters, in
\* millionths of a dollar for one character
MicroDollarsPerCharacter == 300

\* node_base.py lines 375-382: NodeBase.cost
NodeBase_cost(n, st) ==
    [cost |-> 0, st |-> [st EXCEPT !.snapshot = Put(@, node[n].label, "")]]
\* prompt_node.py lines 73-75: PromptNode.cost
PromptNode_cost(n, st) ==
    [cost |-> 0, st |-> [st EXCEPT !.result = node[n].cfg.prompt]]
\* audio_node.py lines 120-122: ElevenLabsNode.cost
ElevenLabsNode_cost(n, st) ==
    [cost |-> MicroDollarsPerCharacter * Len(st.result), st |-> st]
\* dispatch of cost on the class of the node
Node_cost(n, st) ==
    CASE node[n].classname = "PromptNode"     -> PromptNode_cost(n, st)
      [] node[n].classname = "ElevenLabsNode" -> ElevenLabsNode_cost(n, st)
      [] OTHER                                -> NodeBase_cost(n, st)

Flowchart_cost_Last(ns, i, acc) ==
    IF ns = <<>> THEN [cost |-> 0, st |-> acc.st]
    ELSE Node_cost(ns[Len(ns)], acc.st)

\* flowchart.py lines 312-319: Flowchart.cost from the i-th node on, acc
\* being the cost so far and the state the nodes so far have left
RECURSIVE Flowchart_cost(_, _, _)
Flowchart_cost(ns, i, acc) ==
    IF i > Len(ns) THEN acc
    ELSE LET c == Node_cost(ns[i], acc.st) IN
         Flowchart_cost(ns, i + 1, [cost |-> acc.cost + c.cost, st |-> c.st])

\* the line App.cost_flowchart sends to the console
CostLine(cost) == Line("system", "", "Estimated Cost: " \o ToString(cost))

\* app.py lines 403-409: App.cost_flowchart
cost_flowchart ==
    /\ pc = "idle"
    /\ \E r \in {Flowchart_cost(nodes, 1, [cost |-> 0, st |-> StateCopy(initial_state)])} :
       /\ state' = r.st
       /\ console' = <<CostLine(r.cost)>>
    /\ last' = Edit("cost", TRUE, Nil, Nil)
    /\ UNCHANGED <<gvars, is_running, initial_state, pc, phase, queue, cur_node, output,
                   ci, ret, loading, made, entries>>

\* what the file dialogue and the archive give App.save_as
SaveOutcomes == {"saved", "cancelled", "IOError"}

\* app.py lines 428-450: App.save_as; an exception of the archive leaves the
\* method before line 450
save_as(outcome) ==
    /\ pc = "idle"
    /\ is_dirty' = IF outcome = "IOError" THEN is_dirty ELSE FALSE
    /\ last' = Edit(IF outcome = "cancelled" THEN "save_as_cancelled" ELSE "save_as",
                    outcome = "saved", Nil, Nil)
    /\ EditReturns
    /\ UNCHANGED <<nodes, node, run_once, conn, connectors, output_connectors,
                   input_connectors, is_running, initial_state>>

\* the answers of the dialogue "Would you like to save before clearing?";
\* after the answer yes the flowchart is saved and the call goes on as after no
Answers == {"no", "cancel"}

\* the flowchart and the initial state of the App, as one record
TheApp ==
    [nodes |-> nodes, node |-> node, run_once |-> run_once, conn |-> conn,
     connectors |-> connectors, out |-> output_connectors, inp |-> input_connectors,
     is_dirty |-> is_dirty, is_running |-> is_running, initial_state |-> initial_state]

\* flowchart.py lines 283-295: Flowchart.clear.  The two loops delete nodes
\* and connectors of lists that lines 289 and 292 replace by empty lists;
\* the canvas is emptied, so no object of the flowchart is left
Flowchart_clear(app) ==
    [app EXCEPT !.nodes = <<>>, !.connectors = <<>>,
                !.node = <<>>, !.run_once = <<>>, !.conn = <<>>,
                !.out = <<>>, !.inp = <<>>, !.is_dirty = TRUE]

\* the dialogue of App.clear_flowchart is shown (app.py line 381)
Asks(app) == app.nodes # <<>> /\ ~app.is_running

\* app.py lines 378-394: App.clear_flowchart; the answer yes saves first
\* (line 390), which clears is_dirty before Flowchart.clear sets it
App_clear_flowchart(app, answer) ==
    IF Asks(app) /\ answer = "cancel" THEN app
    ELSE [Flowchart_clear(app) EXCEPT !.initial_state = EmptyState]

\* the variables take the values of the record
InstallApp(app) ==
    /\ nodes' = app.nodes
    /\ node' = app.node
    /\ run_once' = app.run_once
    /\ conn' = app.conn
    /\ connectors' = app.connectors
    /\ output_connectors' = app.out
    /\ input_connectors' = app.inp
    /\ is_dirty' = app.is_dirty
    /\ is_running' = app.is_running
    /\ initial_state' = app.initial_state

\* the user chooses Clear: App.clear_flowchart
clear_flowchart(answer) ==
    /\ pc = "idle"
    /\ Asks(TheApp) \/ answer = "no"
    /\ \E app \in {App_clear_flowchart(TheApp, answer)} : InstallApp(app)
    /\ last' = Edit("clear", ~(Asks(TheApp) /\ answer = "cancel"), Nil, Nil)
    /\ EditReturns

\* The files a user loads: the records of flowchart.json
NodeRecord(classname, id, label) ==
    [id |-> id, label |-> label, center_x |-> 100, center_y |-> 100, classname |-> classname]
PromptRecord(id) == [prompt |-> "hello"] @@ NodeRecord("PromptNode", id, "Prompt")
File(nodeRecords, connectorRecords) ==
    [nodes |-> nodeRecords, connectors |-> connectorRecords]
\* a Prompt node with a connector to itself
FilePrompt ==
    File(<<PromptRecord(201)>>, <<[node1 |-> 201, node2 |-> 201, condition |-> CondFalse]>>)
\* what Flowchart.serialize writes for the flowchart of a new App
FileSaved ==
    File(<<NodeRecord("InitNode", 1, "Init"), NodeRecord("StartNode", 2, "Start")>>, <<>>)
\* a node of a class flowchart.py does not import
FileUnregistered == File(<<NodeRecord("FileOutput", 201, "File")>>, <<>>)
\* a Prompt node without its prompt
FileMissingKey == File(<<NodeRecord("PromptNode", 201, "Prompt")>>, <<>>)
\* a connector whose destination is the id of no node
FileDangling ==
    File(<<PromptRecord(201)>>, <<[node1 |-> 201, node2 |-> 999, condition |-> CondFalse]>>)
\* two nodes with one id
FileDuplicate == File(<<PromptRecord(201), PromptRecord(201)>>, <<>>)
Files ==
    {FilePrompt, FileSaved, FileUnregistered, FileMissingKey, FileDangling, FileDuplicate}

\* flowchart.py lines 118-125: Flowchart.find_node among the node records ns
find_node(ns, id) == CHOOSE k \in 1..Len(ns) : ns[k].id = id /\ \A j \in 1..(k-1) : ns[j].id # id

\* the App with the flowchart d, which Flowchart.deserialize returned for
\* the records data: the objects of the new flowchart (flowchart.py lines
\* 60-74, connector.py lines 34-39), is_dirty false
Loaded(app, d, data) ==
    LET ns == d.nodes
        cs == d.connectors
        K == 1..Len(cs)
        n1 == [c \in K |-> find_node(ns, cs[c].node1)]
        n2 == [c \in K |-> find_node(ns, cs[c].node2)]
    IN  [app EXCEPT
            !.nodes = [k \in 1..Len(ns) |-> k],
            !.node = [k \in 1..Len(ns) |-> ns[k]],
            !.run_once = [k \in 1..Len(ns) |-> FALSE],
            !.conn = [c \in K |->
                        [node1 |-> n1[c],
                         node2 |-> n2[c],
                         condition |-> cs[c].condition,
                         label |-> ConnectorCondition(
                                       Get(data.connectors[c], "condition", "")).label]],
            !.connectors = [c \in K |-> c],
            !.out = [k \in 1..Len(ns) |->
                        SelectSeq([c \in K |-> c], LAMBDA c : find_node(ns, cs[c].node1) = k)],
            !.inp = [k \in 1..Len(ns) |->
                        SelectSeq([c \in K |-> c], LAMBDA c : find_node(ns, cs[c].node2) = k)],
            !.is_dirty = FALSE,
            !.is_running = FALSE]

\* app.py lines 452-483: App.load_from with a file chosen; a1 and a2 are the
\* answers to the dialogues of the two calls of clear_flowchart ("no" when
\* the dialogue is not shown).  When add_node does not leave its loop, the
\* call stays in it (pc = "add_node").
load_from(data, a1, a2) ==
    /\ pc = "idle"
    /\ Asks(TheApp) \/ a1 = "no"
    /\ \E d \in {Flowchart_deserialize(data)} :
       \E app1 \in {App_clear_flowchart(TheApp, a1)} :
          /\ Asks(app1) \/ a2 = "no"
          /\ \E app2 \in {App_clear_flowchart(app1, a2)} :
                IF d.ok
                THEN /\ InstallApp(Loaded(app2, d, data))
                     /\ last' = Edit("load", TRUE, Nil, Nil)
                     /\ UNCHANGED <<pc, loading>>
                ELSE IF d.error = "no return"
                THEN /\ InstallApp(app2)
                     /\ last' = Edit("load", FALSE, Nil, Nil)
                     /\ pc' = "add_node"
                     /\ loading' = [nodes |-> d.nodes, node |-> d.adding, copies |-> 0]
                ELSE /\ InstallApp(app2)
                     /\ last' = Edit("load", FALSE, Nil, Nil)
                     /\ UNCHANGED <<pc, loading>>
    /\ state' = NoState
    /\ console' = <<>>
    /\ UNCHANGED <<phase, queue, cur_node, output, ci, ret, made, entries>>

\* node in self.nodes, for the node records of a flowchart being built
InNodes(rec, ns) == \E k \in 1..Len(ns) : ns[k].id = rec.id

\* flowchart.py lines 131-133: one iteration of the while loop of add_node.
\* The model follows the label for MaxCopies suffixes; after that the loop
\* goes on as before and the label is not lengthened any more
add_node_loop ==
    /\ pc = "add_node"
    /\ IF InNodes(loading.node, loading.nodes)
       THEN /\ loading' = IF loading.copies < MaxCopies
                          THEN [loading EXCEPT !.node.label = @ \o " (copy)",
                                               !.copies = @ + 1]
                          ELSE loading
            /\ UNCHANGED pc
       ELSE /\ pc' = "idle"
            /\ loading' = NoLoad
    /\ UNCHANGED <<gvars, is_running, initial_state, phase, state, queue, cur_node, output,
                   ci, console, ret, last, made, entries>>

\* flowchart.py lines 40-53 and app.py line 127: the App has constructed its
\* Flowchart, which added the Init node and the Start node
Init ==
    /\ nodes = <<1, 2>>
    /\ node = (1 :> TheInitNode) @@ (2 :> TheStartNode)
    /\ run_once = (1 :> FALSE) @@ (2 :> FALSE)
    /\ conn = <<>>
    /\ connectors = <<>>
    /\ output_connectors = (1 :> <<>>) @@ (2 :> <<>>)
    /\ input_connectors = (1 :> <<>>) @@ (2 :> <<>>)
    /\ is_dirty = TRUE
    /\ is_running = FALSE
    /\ initial_state = EmptyState
    /\ pc = "idle"
    /\ phase = "none"
    /\ state = NoState
    /\ queue = <<>>
    /\ cur_node = Nil
    /\ output = ""
    /\ ci = 0
    /\ console = <<>>
    /\ ret = NoState
    /\ last = NoEdit
    /\ loading = NoLoad
    /\ made = {}
    /\ entries = NoEntries

Next ==
    \/ \E classname \in NodeClasses : AddNode(classname)
    \/ \E n1, n2 \in Range(nodes), text \in EditorCondTexts : add_connector(n1, n2, text)
    \/ \E c \in DOMAIN conn : Connector_delete(c)
    \/ \E n \in DOMAIN node : Node_delete(n)
    \/ \E n \in Range(nodes) : edit_options(n)
    \/ \E outcome \in SaveOutcomes : save_as(outcome)

\* a session in the editor: the user edits the flowchart and saves it
Spec == Init /\ [][Next]_vars

NextLoad ==
    \/ \E classname \in NodeClasses : AddNode(classname)
    \/ \E n1, n2 \in Range(nodes), text \in EditorCondTexts : add_connector(n1, n2, text)
    \/ \E n \in DOMAIN node : Node_delete(n)
    \/ cost_flowchart
    \/ \E answer \in Answers : clear_flowchart(answer)
    \/ \E data \in Files, a1, a2 \in Answers : load_from(data, a1, a2)
    \/ add_node_loop

NextApi ==
    \/ \E classname \in NodeClasses : Construct(classname)
    \/ \E h \in DOMAIN node : add_node(h)
    \/ \E n \in DOMAIN node : Node_delete(n)
    \/ \E n \in DOMAIN node : copy(n)

\* the methods of Flowchart and NodeBase that make, add and remove nodes,
\* called in any order
SpecApi == Init /\ [][NextApi]_vars

\* The State the App holds when a run has left a history: one entry
TheEntry == [role |-> "user", content |-> "hi"]
TheOriginal ==
    [snapshot |-> Put(EmptyDict, "user", "hi"), history |-> <<1>>, result |-> "{}"]
InitState ==
    /\ nodes = <<1, 2>>
    /\ node = (1 :> TheInitNode) @@ (2 :> TheStartNode)
    /\ run_once = (1 :> FALSE) @@ (2 :> FALSE)
    /\ conn = <<>>
    /\ connectors = <<>>
    /\ output_connectors = (1 :> <<>>) @@ (2 :> <<>>)
    /\ input_connectors = (1 :> <<>>) @@ (2 :> <<>>)
    /\ is_dirty = TRUE
    /\ is_running = FALSE
    /\ initial_state = TheOriginal
    /\ pc = "idle"
    /\ phase = "none"
    /\ state = NoState
    /\ queue = <<>>
    /\ cur_node = Nil
    /\ output = ""
    /\ ci = 0
    /\ console = <<>>
    /\ ret = NoState
    /\ last = NoEdit
    /\ loading = NoLoad
    /\ made = {}
    /\ entries = (1 :> TheEntry)

\* the keys and the values the writes use
Keys == {"user", "File"}
Values == {"hi", "bye"}
\* the history entries there are at most
MaxEntries == 2

\* the writes change the copy, which state holds, and nothing else but entries
WriteFrame ==
    UNCHANGED <<gvars, is_running, initial_state, pc, phase, queue, cur_node, output, ci,
                console, ret, last, loading, made>>

\* state.py lines 39-48: State.copy of the initial state, as App.run_flowchart
\* and App.cost_flowchart call it
State_copy ==
    /\ state' = StateCopy(initial_state)
    /\ WriteFrame /\ UNCHANGED entries

\* node_base.py line 283: state.snapshot[key] = value
SetVariable(k, v) ==
    /\ state # NoState
    /\ state' = [state EXCEPT !.snapshot = Put(@, k, v)]
    /\ WriteFrame /\ UNCHANGED entries

\* node_base.py line 284: state.result = value
SetResult(v) ==
    /\ state # NoState
    /\ state' = [state EXCEPT !.result = v]
    /\ WriteFrame /\ UNCHANGED entries

\* state.history.append(entry) with a new dict
AppendHistory(v) ==
    /\ state # NoState
    /\ Cardinality(DOMAIN entries) < MaxEntries
    /\ LET h == FreeHandle(DOMAIN entries, MaxEntries) IN
       /\ entries' = (h :> [role |-> "assistant", content |-> v]) @@ entries
       /\ state' = [state EXCEPT !.history = Append(@, h)]
    /\ WriteFrame

\* state.history[i]["content"] = value
ModifyEntry(i, v) ==
    /\ state # NoState
    /\ i \in 1..Len(state.history)
    /\ entries' = [entries EXCEPT ![state.history[i]].content = v]
    /\ WriteFrame /\ UNCHANGED state

NextState ==
    \/ State_copy
    \/ \E k \in Keys, v \in Values : SetVariable(k, v)
    \/ \E v \in Values : SetResult(v)
    \/ \E v \in Values : AppendHistory(v)
    \/ \E i \in 1..MaxEntries, v \in Values : ModifyEntry(i, v)

\* a State is copied and the copy is written to
SpecState == InitState /\ [][NextState]_vars

\* a session with files: the user loads flowcharts, changes their nodes,
\* estimates their cost and clears them
SpecLoad == Init /\ [][NextLoad]_vars

\* the handler in progress runs on to its next statement
SpecLoadLive == SpecLoad /\ WF_vars(add_node_loop)

-----------------------------------------------------------------------------
(* Properties of editing and serialization, checked under Spec *)

\* C8 as stated: constructing and adding a connector c from a node to itself,
\* or to a node from which its source is reachable already, leaves the three
\* connector lists as they were.
C8_CycleRejected ==
    [][ \A c \in DOMAIN conn' \ DOMAIN conn :
          (last'.op = "add_connector"
           /\ (conn'[c].node1 = conn'[c].node2
               \/ conn'[c].node1 \in Descendants(conn'[c].node2))) =>
              /\ connectors' = connectors
              /\ output_connectors' = output_connectors
              /\ input_connectors' = input_connectors
      ]_vars

\* C9 as stated: deserializing the serialized flowchart succeeds and gives
\* the same nodes, in order, and the same connector triples.
C9_RoundTrip ==
    LET d == Flowchart_deserialize(Flowchart_serialize) IN
    /\ d.ok
    /\ d.nodes = [i \in 1..Len(nodes) |-> node[nodes[i]]]
    /\ d.connectors = [i \in 1..Len(connectors) |->
           [node1 |-> node[conn[connectors[i]].node1].id,
            node2 |-> node[conn[connectors[i]].node2].id,
            condition |-> conn[connectors[i]].condition]]

\* C10 as stated: every node of the flowchart, deserialized from its own
\* record into the flowchart without it, is the same node again.
C10_NodeRoundTrip ==
    \A n \in Range(nodes) :
        LET d == Node_deserialize(Node_serialize(n), ClassesOf(Range(nodes) \ {n})) IN
        d.ok /\ d.node = node[n]

\* C11 as stated: is_dirty is false when a load has returned a flowchart, true
\* when a node or a connector has been added or removed (add_node,
\* add_connector, remove_node and Node.delete, Connector.delete), and false
\* when a save has succeeded.
C11_DirtyFlag ==
    [][ /\ (last'.op = "load" /\ last'.ok) => ~is_dirty'
        /\ (last'.op \in {"add_node", "add_connector", "remove_node", "connector_delete"}
            /\ last'.ok) => is_dirty'
        /\ (last'.op = "save_as" /\ last'.ok) => ~is_dirty'
      ]_vars

\* C30 as stated: is_dirty goes from true to false only in a save that
\* succeeded or in a load, and a save_as the user cancelled in the file
\* dialogue leaves is_dirty as it was.
C30_CancelledSaveKeepsDirty ==
    [][ /\ (is_dirty /\ ~is_dirty') =>
              \/ last'.op = "save_as" /\ last'.ok
              \/ last'.op = "load"
        /\ last'.op = "save_as_cancelled" => is_dirty' = is_dirty
      ]_vars

\* C15 as stated: when Flowchart.remove_node(n) has returned, n is not in
\* flowchart.nodes, and no connector with n at an end is in
\* flowchart.connectors or in the input or output connectors of a node that
\* remains.
C15_RemoveNodeRemovesItsConnectors ==
    [][ (last'.op = "remove_node" /\ last'.ok) =>
          /\ Range(nodes) \ Range(nodes') # {}
          /\ \A n \in Range(nodes) \ Range(nodes') :
                \A c \in DOMAIN conn :
                   (conn[c].node1 = n \/ conn[c].node2 = n) =>
                      /\ c \notin Range(connectors')
                      /\ \A m \in Range(nodes') :
                            c \notin Range(output_connectors'[m])
                                      \cup Range(input_connectors'[m])
      ]_vars

\* the list without the connector c, the others in their order
Without(s, c) == SelectSeq(s, LAMBDA x : x # c)

-----------------------------------------------------------------------------
(* Properties of cost estimates and files, checked under SpecLoad *)

\* the state the cost methods of the first k nodes of the flowchart, called
\* one after the other on a copy of the initial state, have left
RECURSIVE StateAfterCosts(_)
StateAfterCosts(k) ==
    IF k = 0 THEN StateCopy(initial_state)
    ELSE Node_cost(nodes[k], StateAfterCosts(k - 1)).st
\* what the cost method of the k-th node returns in that sequence of calls
CostOf(k) == Node_cost(nodes[k], StateAfterCosts(k - 1)).cost
RECURSIVE SumOfCosts(_)
SumOfCosts(k) == IF k = 0 THEN 0 ELSE SumOfCosts(k - 1) + CostOf(k)

\* C12: the estimate App.cost_flowchart displays, which Flowchart.cost
\* returned, is the sum of the costs of the nodes of the flowchart, each
\* called in the order of flowchart.nodes on the state the nodes before it
\* have left; the call runs no node: the has-run flags, is_running, is_dirty
\* and the nodes and connectors with their lists are as before it.
C12_CostIsSumOfNodeCosts ==
    [][ last'.op = "cost" =>
          /\ console' = <<CostLine(SumOfCosts(Len(nodes)))>>
          /\ UNCHANGED <<nodes, node, run_once, conn, connectors, output_connectors,
                         input_connectors, is_dirty, is_running>>
      ]_vars

\* an estimate has been displayed in which a node after the first has a cost
C12_Witness ==
    /\ last.op = "cost"
    /\ \E k \in 2..Len(nodes) : CostOf(k) > 0
    /\ console = <<CostLine(SumOfCosts(Len(nodes)))>>

\* C13 as stated: when Flowchart.cost has returned, the variables of the state
\* it was given hold an entry under the label of every node of the flowchart.
C13_CostLeavesPlaceholders ==
    last.op = "cost" =>
        \A n \in Range(nodes) : node[n].label \in DOMAIN state.snapshot

\* C20 as stated: when loading a file has failed, the flowchart of the
\* application, with its nodes, its connectors and its flags, and the
\* initial state are as they were before App.load_from was called.
C20_FailedLoadChangesNothing ==
    [][ (last'.op = "load" /\ ~last'.ok /\ pc' = "idle") =>
            UNCHANGED <<nodes, node, run_once, conn, connectors, output_connectors,
                        input_connectors, is_dirty, is_running, initial_state>>
      ]_vars

\* node_map.py lines 47-96: the keys of node_map, the registered node kinds
node_map ==
    {"InitNode", "StartNode", "InputNode", "FileInput", "JSONFileInput", "FuncNode",
     "OpenAINode", "ClaudeNode", "GoogleVertexNode", "DateNode", "RandomNode",
     "HistoryNode", "ManualHistoryNode", "HistoryWindow", "WindowedHistoryNode",
     "DynamicWindowedHistoryNode", "DummyNode", "PromptNode", "EmbeddingInNode",
     "EmbeddingQueryNode", "EmbeddingsIngestNode", "AssertNode", "LoggingNode",
     "InterpreterNode", "EnvNode", "ManualEnvNode", "WhispersNode", "ElevenLabsNode",
     "PGQueryNode", "SQLiteQueryNode", "PGGenerateNode", "JsonNode", "JsonerizerNode",
     "SerpApiNode", "GoogleSearchNode", "FileOutput", "JSONFileOutput", "HttpNode",
     "JSONRequestNode", "ScrapeNode", "ServerInputNode", "PineconeInsertNode",
     "PineconeQueryNode", "DallENode", "CaptionNode", "OpenImageFile", "JSONImageFile",
     "SaveImageNode"}

\* C21 as stated: when a file is loaded, a node record whose classname is a
\* key of node_map is not refused as an unknown kind, and a file with a
\* record whose classname is no key of node_map is not loaded.
C21_DispatchThroughRegistry ==
    [][ \A data \in Files, a1, a2 \in Answers :
          load_from(data, a1, a2) =>
             LET d == Flowchart_deserialize(data)
                 kinds == {data.nodes[i].classname : i \in 1..Len(data.nodes)}
             IN  /\ kinds \subseteq node_map => ~(~d.ok /\ d.error = "NameError")
                 /\ ~(kinds \subseteq node_map) => ~d.ok
      ]_vars

\* C23 as stated: whatever nodes have been added and removed, and after a
\* clear or a load, the flowchart holds a Start node, so Flowchart.start_node
\* finds the entry of a run.
C23_StartNodeExists == pc = "idle" => start_node # Nil

\* C19 as stated, checked under SpecLoadLive: a call of Flowchart.add_node
\* with a node that has the id of a node of flowchart.nodes returns.
C19_AddNodeReturns == (pc = "add_node") ~> (pc = "idle")

-----------------------------------------------------------------------------
(* Properties of the methods that make, add and remove nodes, checked under
   SpecApi *)

\* the positions of flowchart.nodes that hold a node of the class
PositionsOf(classname) == {i \in 1..Len(nodes) : node[nodes[i]].classname = classname}

\* C14 as stated: whatever nodes have been constructed, added, removed and
\* copied, in whatever order, flowchart.nodes holds at most one StartNode
\* and at most one InitNode.
C14_AtMostOneStartAndInit ==
    /\ Cardinality(PositionsOf("StartNode")) <= 1
    /\ Cardinality(PositionsOf("InitNode")) <= 1

\* C18 as stated: whatever nodes have been added, nodes constructed with the
\* same label and copies of nodes among them, the labels of the nodes of
\* flowchart.nodes are pairwise distinct.
C18_LabelsAreDistinct ==
    \A i, j \in 1..Len(nodes) : i # j => node[nodes[i]].label # node[nodes[j]].label

-----------------------------------------------------------------------------
(* Properties of State.copy, checked under SpecState *)

\* the history of a State, each entry with its contents
HistoryOf(s) == [i \in 1..Len(s.history) |-> entries[s.history[i]]]

\* C22 as stated: whatever has been written to a copy of the state, the
\* variables, the history and the result of the original are what they were.
C22_CopySharesNothing ==
    /\ initial_state.snapshot = TheOriginal.snapshot
    /\ initial_state.result = TheOriginal.result
    /\ HistoryOf(initial_state) = <<TheEntry>>

=============================================================================
